---- MODULE Spec2Model ----
(***************************************************************************)
(* Model of the USRP receive-to-file pipeline of usrp_rx_to_file_thread.py *)
(* (main/producer process, writer process, sync process) and of the loss   *)
(* accountant process_metadata.                                            *)
(*                                                                         *)
(* The writer and the sync worker are multiprocessing.Process objects.     *)
(* What they share with the main process is what survives a fork as shared *)
(* memory: the mp.Queue rx_index_queue, the two mp.Event objects and the   *)
(* MAP_SHARED np.memmap samples.  The ring pool rx_queue is an ordinary    *)
(* np.zeros array: the writer works on the image of it taken when          *)
(* writer_thread.start() runs (w_rx_queue).                                *)
(***************************************************************************)
EXTENDS Integers, Sequences, FiniteSets

----------------------------------------------------------------------------
(* Bounds                                                                  *)

\* streamer.get_max_num_samps(): samples per device buffer
len_recv_buffer == 2

\* int(usrp.get_rx_rate() / len_recv_buffer): number of ring slots
rx_queue_size == 2

\* largest num_samps_min = int(sample_rate * duration) explored
MaxSampsMin == 7

\* accountant harness: number of statuses fed to process_metadata
MaxStatuses == 3

----------------------------------------------------------------------------
(* Values                                                                  *)

ErrorCodes == {"none", "overflow", "late", "timeout", "other"}

\* metadata.time_spec values, in whole seconds
TimeSpecs == {10, 12, 13}

RxRates == {1000, 2000}

\* the entry that stops the writer
Sentinel == <<-1, -1>>

\* np.zeros row of the ring pool
ZeroBuffer == [k \in 0..(len_recv_buffer - 1) |-> 0]

\* the buffer the device delivers in cycle i: a ramp, so that every sample of
\* the stream is distinct from every other and from the zero fill
DeviceBuffer(i) == [k \in 0..(len_recv_buffer - 1) |-> i * len_recv_buffer + k + 1]

VARIABLES
    \* ---- environment
    euid_root,        \* os.seteuid(0) succeeds
    rt_permitted,     \* os.sched_setscheduler(SCHED_RR) is permitted
    pin_permitted,    \* os.sched_setaffinity is permitted
    \* ---- configuration
    num_samps_min,    \* int(sample_rate * args.duration)
    num_recv_buffers,
    num_samps,
    \* ---- shared objects
    samples,          \* the memory mapped output array (page cache contents)
    disk,             \* what of samples is durable
    rx_index_queue,   \* mp.Queue of (i, ii)
    sync_running,     \* mp.Event
    writer_running,   \* mp.Event
    \* ---- main process
    pc,
    i,                \* loop variable i (cycles put so far)
    rx_queue,         \* ring pool of the main process
    recv_buffer,
    metadata,
    reported,         \* PermissionErrors printed by the probe
    \* ---- writer process
    w_pc,
    w_rx_queue,       \* the writer's image of the ring pool
    w_entry,          \* (i, ii) last taken from the queue
    rx_queue_writer_max_q,
    warnings,         \* "RX writer queue is big" lines logged
    \* ---- sync process
    s_pc,
    \* ---- accountant
    had_an_overflow,
    last_overflow,
    num_rx_dropped,
    num_rx_overruns,
    num_rx_seqerr,
    num_rx_timeouts,
    num_rx_late,
    rate,
    acct_pc,
    \* ---- history
    received,         \* received[c+1]: the buffer recv delivered in cycle c
    write_count,      \* write_count[b]: times block b of samples was written
    loop_exit,        \* how the acquisition loop ended
    interrupts,       \* processes a KeyboardInterrupt was delivered to
    cleared,          \* events on which clear() has been called
    sentinel_seen,    \* the writer took the Sentinel from the queue
    main_flushes,     \* samples.flush() calls of the main process after join
    statuses,         \* statuses fed to process_metadata
    peak_q            \* most entries rx_index_queue has held at once

envVars == <<euid_root, rt_permitted, pin_permitted>>
cfgVars == <<num_samps_min, num_recv_buffers, num_samps>>
sharedVars == <<samples, disk, rx_index_queue, sync_running, writer_running>>
mainVars == <<pc, i, rx_queue, recv_buffer, metadata, reported>>
writerVars == <<w_pc, w_rx_queue, w_entry, rx_queue_writer_max_q, warnings>>
acctVars == <<had_an_overflow, last_overflow, num_rx_dropped, num_rx_overruns,
              num_rx_seqerr, num_rx_timeouts, num_rx_late, rate, acct_pc>>
histVars == <<received, write_count, loop_exit, interrupts, cleared,
              sentinel_seen, main_flushes, statuses, peak_q>>

vars == <<envVars, cfgVars, sharedVars, mainVars, writerVars, s_pc, acctVars, histVars>>

----------------------------------------------------------------------------
(* Helpers                                                                 *)

\* int(np.ceil(num_samps_min / len_recv_buffer)), line 255.  The float quotient
\* of two integers below 2^53 is never rounded across an integer, so the
\* result is the integer ceiling.
NumRecvBuffersFloor(nmin, len) == nmin \div len

NumRecvBuffers(nmin, len) == (nmin + len - 1) \div len

\* mp.Event.clear()
ClearToggles(ev) == ~ev

Clear(ev) == FALSE

\* rx_index_queue.get(block=True): the oldest entry
QueueGetNewest(q) == [item |-> q[Len(q)], rest |-> SubSeq(q, 1, Len(q) - 1)]

QueueGet(q) == [item |-> Head(q), rest |-> Tail(q)]

\* rx_index_queue.put(e): mp.Queue() has no maxsize, put never blocks
QueuePutLost(q, e) == q

QueuePutFront(q, e) == <<e>> \o q

QueuePut(q, e) == Append(q, e)

\* samples[b * buffer_size : (b + 1) * buffer_size] = row
WriteBlock(arr, b, row) ==
    [k \in DOMAIN arr |->
        IF b * len_recv_buffer <= k /\ k < (b + 1) * len_recv_buffer
        THEN row[k - b * len_recv_buffer]
        ELSE arr[k]]

\* samples.flush() / os.sync(): the mapped pages become durable
Flush(arr, dsk) == arr

\* samples[b * buffer_size : (b + 1) * buffer_size]
Block(arr, b) == [k \in 0..(len_recv_buffer - 1) |-> arr[b * len_recv_buffer + k]]

Max(a, b) == IF a >= b THEN a ELSE b

NoMetadata == [error_code |-> "none", time_spec |-> 0, out_of_sequence |-> FALSE]

ZeroRing == [s \in 0..(rx_queue_size - 1) |-> ZeroBuffer]

----------------------------------------------------------------------------
(* Initial state: the interpreter is about to run line 39                  *)

AcctInit ==
    /\ had_an_overflow = FALSE
    /\ last_overflow = 0
    /\ num_rx_dropped = 0
    /\ num_rx_overruns = 0
    /\ num_rx_seqerr = 0
    /\ num_rx_timeouts = 0
    /\ num_rx_late = 0

HistInit ==
    /\ received = <<>>
    /\ write_count = <<>>
    /\ loop_exit = "none"
    /\ interrupts = {}
    /\ cleared = {}
    /\ sentinel_seen = FALSE
    /\ main_flushes = 0
    /\ statuses = <<>>
    /\ peak_q = 0

PipelineInit ==
    /\ num_recv_buffers = 0
    /\ num_samps = 0
    /\ samples = <<>>
    /\ disk = <<>>
    /\ rx_index_queue = <<>>
    /\ sync_running = FALSE
    /\ writer_running = FALSE
    /\ i = 0
    /\ rx_queue = <<>>
    /\ recv_buffer = <<>>
    /\ metadata = NoMetadata
    /\ reported = 0
    /\ w_pc = "idle"
    /\ w_rx_queue = <<>>
    /\ w_entry = <<0, 0>>
    /\ rx_queue_writer_max_q = -1
    /\ warnings = 0
    /\ s_pc = "idle"

Init ==
    /\ euid_root \in BOOLEAN
    /\ rt_permitted \in BOOLEAN
    /\ pin_permitted \in BOOLEAN
    /\ num_samps_min \in 1..MaxSampsMin
    /\ pc = "probe"
    /\ PipelineInit
    /\ AcctInit
    /\ rate = 0
    /\ acct_pc = "unused"
    /\ HistInit

----------------------------------------------------------------------------
(* Main process                                                            *)

\* lines 39-47: try SCHED_RR; a PermissionError is printed; the finally
\* clause restores the scheduler the process had
Probe ==
    /\ pc = "probe"
    /\ reported' = IF rt_permitted THEN reported ELSE reported + 1
    /\ pc' = "seteuid"
    /\ UNCHANGED <<envVars, cfgVars, sharedVars, i, rx_queue, recv_buffer, metadata,
                   writerVars, s_pc, acctVars, histVars>>

\* lines 50-58: seteuid(0); a PermissionError is printed; exit() unless root
SetEuid ==
    /\ pc = "seteuid"
    /\ reported' = IF euid_root THEN reported ELSE reported + 1
    /\ pc' = IF euid_root THEN "setup" ELSE "exited"
    /\ UNCHANGED <<envVars, cfgVars, sharedVars, i, rx_queue, recv_buffer, metadata,
                   writerVars, s_pc, acctVars, histVars>>

\* lines 222-286: sizes, receive buffer, output array, ring pool, queue
Setup ==
    /\ pc = "setup"
    /\ num_recv_buffers' = NumRecvBuffers(num_samps_min, len_recv_buffer)
    /\ num_samps' = num_recv_buffers' * len_recv_buffer
    /\ recv_buffer' = ZeroBuffer
    /\ samples' = [k \in 0..(num_samps' - 1) |-> 0]
    /\ disk' = Flush(samples', disk)
    /\ rx_queue' = ZeroRing
    /\ rx_index_queue' = <<>>
    /\ write_count' = [b \in 0..(num_recv_buffers' - 1) |-> 0]
    /\ pc' = "start_sync"
    /\ UNCHANGED <<envVars, num_samps_min, sync_running, writer_running, i, metadata,
                   reported, writerVars, s_pc, acctVars, received, loop_exit,
                   interrupts, cleared, sentinel_seen, main_flushes, statuses, peak_q>>

\* lines 383-384
StartSync ==
    /\ pc = "start_sync"
    /\ sync_running' = TRUE
    /\ s_pc' = "prio"
    /\ pc' = "start_writer"
    /\ UNCHANGED <<envVars, cfgVars, samples, disk, rx_index_queue, writer_running,
                   i, rx_queue, recv_buffer, metadata, reported, writerVars,
                   acctVars, histVars>>

\* lines 385-386: the writer process starts with the ring pool as it is now
StartWriter ==
    /\ pc = "start_writer"
    /\ writer_running' = TRUE
    /\ w_pc' = "prio"
    /\ w_rx_queue' = rx_queue
    /\ pc' = "raise_rt"
    /\ UNCHANGED <<envVars, cfgVars, samples, disk, rx_index_queue, sync_running,
                   i, rx_queue, recv_buffer, metadata, reported, w_entry,
                   rx_queue_writer_max_q, warnings, s_pc, acctVars, histVars>>

\* lines 396-397: sched_setscheduler(SCHED_RR, 99), sched_setaffinity((5,)).
\* A PermissionError is an OSError: neither except clause catches it, the
\* script ends with a traceback and never reaches line 436.
RaiseRT ==
    /\ pc = "raise_rt"
    /\ pc' = IF rt_permitted /\ pin_permitted THEN "loop" ELSE "aborted"
    /\ UNCHANGED <<envVars, cfgVars, sharedVars, i, rx_queue, recv_buffer, metadata,
                   reported, writerVars, s_pc, acctVars, histVars>>

\* lines 403-405: element c of zip(it.cycle(range(rx_queue_size)), trange(...))
RxIterSkipsSlotZero(c) == [ii |-> ((c % rx_queue_size) + 1) % rx_queue_size, i |-> c]

RxIter(c) == [ii |-> c % rx_queue_size, i |-> c]

\* line 416 is a comment: the loop itself assigns nothing to samples (the
\* single-process script usrp_rx_to_file.py has the assignment)
LoopAssignsBlock(arr, c, buf) == WriteBlock(arr, c, buf)

LoopAssigns(arr, c, buf) == arr

\* lines 412-421, one iteration: recv, copy into ring slot ii, put (i, ii)
Acquire ==
    /\ pc = "loop"
    /\ i < num_samps \div len_recv_buffer
    /\ \E code \in ErrorCodes :
          metadata' = [error_code |-> code, time_spec |-> i, out_of_sequence |-> FALSE]
    /\ LET ii == RxIter(i).ii IN
          /\ recv_buffer' = DeviceBuffer(i)
          /\ rx_queue' = [rx_queue EXCEPT ![ii] = recv_buffer']
          /\ rx_index_queue' = QueuePut(rx_index_queue, <<RxIter(i).i, ii>>)
    /\ samples' = LoopAssigns(samples, RxIter(i).i, recv_buffer')
    /\ received' = Append(received, recv_buffer')
    /\ peak_q' = Max(peak_q, Len(rx_index_queue'))
    /\ i' = i + 1
    /\ UNCHANGED <<envVars, cfgVars, disk, sync_running, writer_running, pc,
                   reported, writerVars, s_pc, acctVars, write_count, loop_exit,
                   interrupts, cleared, sentinel_seen, main_flushes, statuses>>

\* the iterator is exhausted: the try block ends normally
LoopEnd ==
    /\ pc = "loop"
    /\ i = num_samps \div len_recv_buffer
    /\ loop_exit' = "normal"
    /\ pc' = "stop_stream"
    /\ UNCHANGED <<envVars, cfgVars, sharedVars, i, rx_queue, recv_buffer, metadata,
                   reported, writerVars, s_pc, acctVars, received, write_count,
                   interrupts, cleared, sentinel_seen, main_flushes, statuses, peak_q>>

\* streamer.recv raises RuntimeError (line 413): nothing of this cycle is queued
RecvRuntimeError ==
    /\ pc = "loop"
    /\ i < num_samps \div len_recv_buffer
    /\ loop_exit' = "runtime_error"
    /\ pc' = "except"
    /\ UNCHANGED <<envVars, cfgVars, sharedVars, i, rx_queue, recv_buffer, metadata,
                   reported, writerVars, s_pc, acctVars, received, write_count,
                   interrupts, cleared, sentinel_seen, main_flushes, statuses, peak_q>>

\* KeyboardInterrupt delivered to the main process inside the try block
\* (lines 380-421)
MainInterrupt ==
    /\ pc \in {"start_sync", "start_writer", "raise_rt", "loop"}
    /\ loop_exit' = "interrupt"
    /\ interrupts' = interrupts \cup {"main"}
    /\ pc' = "except"
    /\ UNCHANGED <<envVars, cfgVars, sharedVars, i, rx_queue, recv_buffer, metadata,
                   reported, writerVars, s_pc, acctVars, received, write_count,
                   cleared, sentinel_seen, main_flushes, statuses, peak_q>>

\* lines 423-433: both handlers log, then clear both events
Except ==
    /\ pc = "except"
    /\ writer_running' = Clear(writer_running)
    /\ sync_running' = Clear(sync_running)
    /\ cleared' = cleared \cup {"writer", "sync"}
    /\ pc' = "stop_stream"
    /\ UNCHANGED <<envVars, cfgVars, samples, disk, rx_index_queue, i, rx_queue,
                   recv_buffer, metadata, reported, writerVars, s_pc, acctVars,
                   received, write_count, loop_exit, interrupts, sentinel_seen,
                   main_flushes, statuses, peak_q>>

\* lines 436-440: stop the stream, back to SCHED_OTHER
StopStream ==
    /\ pc = "stop_stream"
    /\ pc' = "put_sentinel"
    /\ UNCHANGED <<envVars, cfgVars, sharedVars, i, rx_queue, recv_buffer, metadata,
                   reported, writerVars, s_pc, acctVars, histVars>>

\* line 443
PutSentinel ==
    /\ pc = "put_sentinel"
    /\ rx_index_queue' = QueuePut(rx_index_queue, Sentinel)
    /\ peak_q' = Max(peak_q, Len(rx_index_queue'))
    /\ pc' = "join_writer"
    /\ UNCHANGED <<envVars, cfgVars, samples, disk, sync_running, writer_running, i,
                   rx_queue, recv_buffer, metadata, reported, writerVars, s_pc,
                   acctVars, received, write_count, loop_exit, interrupts, cleared,
                   sentinel_seen, main_flushes, statuses>>

\* line 444: join returns once the writer process has ended; joining a
\* process that was never started fails its assertion and ends the script
JoinWriter ==
    /\ pc = "join_writer"
    /\ w_pc \in {"idle", "exited", "crashed"}
    /\ pc' = IF w_pc = "idle" THEN "aborted" ELSE "flush"
    /\ UNCHANGED <<envVars, cfgVars, sharedVars, i, rx_queue, recv_buffer, metadata,
                   reported, writerVars, s_pc, acctVars, histVars>>

\* line 445
MainFlush ==
    /\ pc = "flush"
    /\ disk' = Flush(samples, disk)
    /\ main_flushes' = main_flushes + 1
    /\ pc' = "clear_sync"
    /\ UNCHANGED <<envVars, cfgVars, samples, rx_index_queue, sync_running,
                   writer_running, i, rx_queue, recv_buffer, metadata, reported,
                   writerVars, s_pc, acctVars, received, write_count, loop_exit,
                   interrupts, cleared, sentinel_seen, statuses, peak_q>>

\* line 447
ClearSync ==
    /\ pc = "clear_sync"
    /\ sync_running' = Clear(sync_running)
    /\ cleared' = cleared \cup {"sync"}
    /\ pc' = "join_sync"
    /\ UNCHANGED <<envVars, cfgVars, samples, disk, rx_index_queue, writer_running, i,
                   rx_queue, recv_buffer, metadata, reported, writerVars, s_pc,
                   acctVars, received, write_count, loop_exit, interrupts,
                   sentinel_seen, main_flushes, statuses, peak_q>>

\* line 448
JoinSync ==
    /\ pc = "join_sync"
    /\ s_pc \in {"exited", "crashed"}
    /\ pc' = "final_flush"
    /\ UNCHANGED <<envVars, cfgVars, sharedVars, i, rx_queue, recv_buffer, metadata,
                   reported, writerVars, s_pc, acctVars, histVars>>

\* lines 451-452: samples.flush(); os.sync()
FinalFlush ==
    /\ pc = "final_flush"
    /\ disk' = Flush(samples, disk)
    /\ main_flushes' = main_flushes + 1
    /\ pc' = "done"
    /\ UNCHANGED <<envVars, cfgVars, samples, rx_index_queue, sync_running,
                   writer_running, i, rx_queue, recv_buffer, metadata, reported,
                   writerVars, s_pc, acctVars, received, write_count, loop_exit,
                   interrupts, cleared, sentinel_seen, statuses, peak_q>>

----------------------------------------------------------------------------
(* Scheduling                                                              *)

\* set_process_priority(priority, scheduler, affinity), lines 289-299: TRUE
\* when every call it makes is permitted; there is no try around the calls,
\* so a PermissionError leaves the function and the caller
SetProcessPriority(realtime, affinity) ==
    /\ (realtime => rt_permitted)
    /\ (affinity => pin_permitted)

----------------------------------------------------------------------------
(* Writer process: rx_queue_writer                                         *)

\* line 331: set_process_priority(10, scheduler=os.SCHED_RR, affinity=(4,))
WriterPriority ==
    /\ w_pc = "prio"
    /\ w_pc' = IF SetProcessPriority(TRUE, TRUE) THEN "check" ELSE "crashed"
    /\ UNCHANGED <<envVars, cfgVars, sharedVars, mainVars, w_rx_queue, w_entry,
                   rx_queue_writer_max_q, warnings, s_pc, acctVars, histVars>>

\* line 336: while writer_running.is_set()
WriterCheck ==
    /\ w_pc = "check"
    /\ w_pc' = IF writer_running THEN "get" ELSE "stopping"
    /\ UNCHANGED <<envVars, cfgVars, sharedVars, mainVars, w_rx_queue, w_entry,
                   rx_queue_writer_max_q, warnings, s_pc, acctVars, histVars>>

\* lines 337-339: blocking get; a negative index ends the loop
WriterGet ==
    /\ w_pc = "get"
    /\ rx_index_queue # <<>>
    /\ LET g == QueueGet(rx_index_queue) IN
          /\ w_entry' = g.item
          /\ rx_index_queue' = g.rest
          /\ w_pc' = IF g.item[1] < 0 THEN "stopping" ELSE "write"
          /\ sentinel_seen' = (sentinel_seen \/ g.item[1] < 0)
    /\ UNCHANGED <<envVars, cfgVars, samples, disk, sync_running, writer_running,
                   mainVars, w_rx_queue, rx_queue_writer_max_q, warnings, s_pc, acctVars,
                   received, write_count, loop_exit, interrupts, cleared,
                   main_flushes, statuses, peak_q>>

\* line 340: samples[i * buffer_size : (i + 1) * buffer_size] = rx_queue[ii, :]
WriterWrite ==
    /\ w_pc = "write"
    /\ samples' = WriteBlock(samples, w_entry[1], w_rx_queue[w_entry[2]])
    /\ write_count' = [write_count EXCEPT ![w_entry[1]] = @ + 1]
    /\ w_pc' = "qsize"
    /\ UNCHANGED <<envVars, cfgVars, disk, rx_index_queue, sync_running,
                   writer_running, mainVars, w_rx_queue, w_entry,
                   rx_queue_writer_max_q, warnings, s_pc, acctVars, received, loop_exit,
                   interrupts, cleared, sentinel_seen, main_flushes, statuses, peak_q>>

\* line 344: qs > warn_size and qs % 1000 == 0, with warn_size = queue_size / 2
\* (line 334, a float) and queue_size the number of rows of rx_queue
Warns(qs) == 2 * qs > rx_queue_size /\ qs % 1000 = 0

\* lines 342-343
RunningMaxLatest(m, qs) == qs

RunningMax(m, qs) == IF qs > m THEN qs ELSE m

\* lines 341-345: queue depth, its running maximum, the warning
WriterQsize ==
    /\ w_pc = "qsize"
    /\ LET qs == Len(rx_index_queue) IN
          /\ rx_queue_writer_max_q' = RunningMax(rx_queue_writer_max_q, qs)
          /\ warnings' = IF Warns(qs) THEN warnings + 1 ELSE warnings
    /\ w_pc' = "check"
    /\ UNCHANGED <<envVars, cfgVars, sharedVars, mainVars, w_rx_queue, w_entry,
                   s_pc, acctVars, histVars>>

\* lines 348-350: KeyboardInterrupt delivered to the writer inside its try
WriterInterrupt ==
    /\ w_pc \in {"check", "get", "write", "qsize"}
    /\ interrupts' = interrupts \cup {"writer"}
    /\ w_pc' = "stopping"
    /\ UNCHANGED <<envVars, cfgVars, sharedVars, mainVars, w_rx_queue, w_entry,
                   rx_queue_writer_max_q, warnings, s_pc, acctVars, received, write_count,
                   loop_exit, cleared, sentinel_seen, main_flushes, statuses, peak_q>>

\* lines 352-355: log and samples.flush(); the process ends
WriterStop ==
    /\ w_pc = "stopping"
    /\ disk' = Flush(samples, disk)
    /\ w_pc' = "exited"
    /\ UNCHANGED <<envVars, cfgVars, samples, rx_index_queue, sync_running,
                   writer_running, mainVars, w_rx_queue, w_entry,
                   rx_queue_writer_max_q, warnings, s_pc, acctVars, histVars>>

----------------------------------------------------------------------------
(* Sync process: sync_and_sleep                                            *)

\* line 312: set_process_priority(0, affinity=(3,))
SyncPriority ==
    /\ s_pc = "prio"
    /\ s_pc' = IF SetProcessPriority(FALSE, TRUE) THEN "loop" ELSE "crashed"
    /\ UNCHANGED <<envVars, cfgVars, sharedVars, mainVars, writerVars, acctVars,
                   histVars>>

\* lines 315-318: one turn of the loop, or its end
SyncLoop ==
    /\ s_pc = "loop"
    /\ IF sync_running
       THEN /\ disk' = Flush(samples, disk)
            /\ s_pc' = "loop"
       ELSE /\ disk' = disk
            /\ s_pc' = "exited"
    /\ UNCHANGED <<envVars, cfgVars, samples, rx_index_queue, sync_running,
                   writer_running, mainVars, writerVars, acctVars, histVars>>

\* lines 319-320: KeyboardInterrupt delivered to the sync process
SyncInterrupt ==
    /\ s_pc = "loop"
    /\ interrupts' = interrupts \cup {"sync"}
    /\ s_pc' = "exited"
    /\ UNCHANGED <<envVars, cfgVars, sharedVars, mainVars, writerVars, acctVars,
                   received, write_count, loop_exit, cleared, sentinel_seen,
                   main_flushes, statuses, peak_q>>

----------------------------------------------------------------------------

Main ==
    \/ Probe \/ SetEuid \/ Setup \/ StartSync \/ StartWriter \/ RaiseRT
    \/ Acquire \/ LoopEnd \/ RecvRuntimeError \/ MainInterrupt \/ Except
    \/ StopStream \/ PutSentinel \/ JoinWriter \/ MainFlush \/ ClearSync
    \/ JoinSync \/ FinalFlush

Writer ==
    \/ WriterPriority \/ WriterCheck \/ WriterGet \/ WriterWrite \/ WriterQsize
    \/ WriterInterrupt \/ WriterStop

Sync == SyncPriority \/ SyncLoop \/ SyncInterrupt

Next == Main \/ Writer \/ Sync

Spec == Init /\ [][Next]_vars

\* The steps each process takes by itself.  A KeyboardInterrupt and a
\* RuntimeError of recv come from outside: nothing makes them happen.
MainRun ==
    \/ Probe \/ SetEuid \/ Setup \/ StartSync \/ StartWriter \/ RaiseRT
    \/ Acquire \/ LoopEnd \/ Except \/ StopStream \/ PutSentinel \/ JoinWriter
    \/ MainFlush \/ ClearSync \/ JoinSync \/ FinalFlush

WriterRun ==
    \/ WriterPriority \/ WriterCheck \/ WriterGet \/ WriterWrite \/ WriterQsize
    \/ WriterStop

SyncRun == SyncPriority \/ SyncLoop

\* The three are operating system processes: the kernel runs each of them
\* again whenever it is not blocked (in get, in join).
Fairness == WF_vars(MainRun) /\ WF_vars(WriterRun) /\ WF_vars(SyncRun)

SpecFair == Init /\ [][Next]_vars /\ Fairness

----------------------------------------------------------------------------
(* Loss accountant: process_metadata.  Neither script calls it (the call   *)
(* in the acquisition loop is commented out, line 417), so it is driven    *)
(* here by a harness that feeds it one status after another.               *)

DeviceStatus ==
    [error_code : ErrorCodes, time_spec : TimeSpecs, out_of_sequence : BOOLEAN]

\* TimeSpec.to_ticks(rate) of a whole number of seconds
ToTicks(dt, r) == dt * r

\* line 165: (metadata.time_spec - last_overflow).to_ticks(rate)
NumRxDroppedHereSwapped(ts, lo, r) == ToTicks(lo - ts, r)

NumRxDroppedHere(ts, lo, r) == ToTicks(ts - lo, r)

\* lines 161-168: no error; closes an overflow episode
OnNone(md) ==
    /\ IF had_an_overflow
       THEN /\ had_an_overflow' = FALSE
            /\ num_rx_dropped' = num_rx_dropped
                   + NumRxDroppedHere(md.time_spec, last_overflow, rate)
       ELSE UNCHANGED <<had_an_overflow, num_rx_dropped>>
    /\ UNCHANGED <<last_overflow, num_rx_overruns, num_rx_seqerr,
                   num_rx_timeouts, num_rx_late, acct_pc>>

\* lines 169-182: the flag and the timestamp are set on every overflow
OnOverflowIgnoresSequence(md) ==
    /\ had_an_overflow' = TRUE
    /\ last_overflow' = md.time_spec
    /\ num_rx_overruns' = num_rx_overruns + 1
    /\ UNCHANGED <<num_rx_seqerr, num_rx_dropped, num_rx_timeouts, num_rx_late,
                   acct_pc>>

OnOverflow(md) ==
    /\ had_an_overflow' = TRUE
    /\ last_overflow' = md.time_spec
    /\ IF md.out_of_sequence
       THEN /\ num_rx_seqerr' = num_rx_seqerr + 1
            /\ UNCHANGED num_rx_overruns
       ELSE /\ num_rx_overruns' = num_rx_overruns + 1
            /\ UNCHANGED num_rx_seqerr
    /\ UNCHANGED <<num_rx_dropped, num_rx_timeouts, num_rx_late, acct_pc>>

\* lines 183-193: line 187 counts; line 190 then reads INIT_DELAY, a name no
\* line of the script binds: NameError leaves the function.  The restart
\* itself (lines 192-193) is commented out.
OnLate(md) ==
    /\ num_rx_late' = num_rx_late + 1
    /\ acct_pc' = "raised"
    /\ UNCHANGED <<had_an_overflow, last_overflow, num_rx_dropped,
                   num_rx_overruns, num_rx_seqerr, num_rx_timeouts>>

\* lines 194-196
OnTimeoutEndsOverflow(md) ==
    /\ num_rx_timeouts' = num_rx_timeouts + 1
    /\ had_an_overflow' = FALSE
    /\ UNCHANGED <<last_overflow, num_rx_dropped, num_rx_overruns, num_rx_seqerr,
                   num_rx_late, acct_pc>>

OnTimeout(md) ==
    /\ num_rx_timeouts' = num_rx_timeouts + 1
    /\ UNCHANGED <<had_an_overflow, last_overflow, num_rx_dropped,
                   num_rx_overruns, num_rx_seqerr, num_rx_late, acct_pc>>

\* lines 197-199: two log lines
OnOtherCountsTimeout(md) ==
    /\ num_rx_timeouts' = num_rx_timeouts + 1
    /\ UNCHANGED <<had_an_overflow, last_overflow, num_rx_dropped,
                   num_rx_overruns, num_rx_seqerr, num_rx_late, acct_pc>>

OnOther(md) ==
    UNCHANGED <<had_an_overflow, last_overflow, num_rx_dropped,
                num_rx_overruns, num_rx_seqerr, num_rx_timeouts,
                num_rx_late, acct_pc>>

\* lines 155-199
ProcessMetadata(md) ==
    /\ acct_pc = "ready"
    /\ Len(statuses) < MaxStatuses
    /\ statuses' = Append(statuses, md)
    /\ CASE md.error_code = "none" -> OnNone(md)
         [] md.error_code = "overflow" -> OnOverflow(md)
         [] md.error_code = "late" -> OnLate(md)
         [] md.error_code = "timeout" -> OnTimeout(md)
         [] OTHER -> OnOther(md)
    /\ UNCHANGED <<envVars, cfgVars, sharedVars, mainVars, writerVars, s_pc, rate,
                   received, write_count, loop_exit, interrupts, cleared,
                   sentinel_seen, main_flushes, peak_q>>

\* the accountant's globals as lines 144-152 leave them; rate is what
\* usrp.get_rx_rate() returns
InitAcct ==
    /\ euid_root = TRUE
    /\ rt_permitted = TRUE
    /\ pin_permitted = TRUE
    /\ num_samps_min = 1
    /\ pc = "accountant"
    /\ PipelineInit
    /\ AcctInit
    /\ rate \in RxRates
    /\ acct_pc = "ready"
    /\ HistInit

NextAcct == \E md \in DeviceStatus : ProcessMetadata(md)

SpecAcct == InitAcct /\ [][NextAcct]_vars

----------------------------------------------------------------------------
(* Properties                                                              *)

\* number of normal entries the producer has put on the queue
Enqueued == i

\* the main process has run line 443
SentinelEmitted ==
    pc \in {"join_writer", "flush", "clear_sync", "join_sync", "final_flush", "done"}

\* a clean run: the loop ran to its target count, nobody was interrupted,
\* and the script reached its last line
CleanRun == pc = "done" /\ loop_exit = "normal" /\ interrupts = {}

NormalEntries(q) == {k \in 1..Len(q) : q[k][1] >= 0}

RECURSIVE SumUpTo(_, _)
SumUpTo(f, n) == IF n < 0 THEN 0 ELSE f[n] + SumUpTo(f, n - 1)

\* samples written by the writer so far, counting a block each time it is written
SamplesWritten == len_recv_buffer * SumUpTo(write_count, num_recv_buffers - 1)

\* C1: on every shutdown path, when shutdown has completed every entry the
\* producer put on the queue has been copied into samples by the writer.
\* (Stated for the runs in which no worker lost its privileges and no
\* KeyboardInterrupt reached the writer or the sync process.)
C1_AllQueuedWritten ==
    (pc = "done" /\ interrupts \subseteq {"main"} /\ w_pc = "exited")
        => \A b \in 0..(Enqueued - 1) : write_count[b] >= 1

\* C2: the queue never holds more than rx_queue_size entries (the producer
\* would block on put once it does).
C2_QueueBounded ==
    Cardinality(NormalEntries(rx_index_queue)) <= rx_queue_size

\* C3: when the writer is about to copy slot s for entry (i, s), slot s of
\* the ring pool the producer fills still holds the buffer of cycle i.
C3_NoSlotOverwritten ==
    w_pc = "write" => rx_queue[w_entry[2]] = received[w_entry[1] + 1]

\* C4: after a clean run, block b of samples equals the buffer the producer
\* received from the device in cycle b, for every cycle b.
C4_OutputEqualsReceived ==
    CleanRun =>
        \A b \in 0..(num_recv_buffers - 1) : Block(samples, b) = received[b + 1]

\* C5: a clean run makes ceil(num_samps_min / len_recv_buffer) cycles, samples
\* holds cycles * len_recv_buffer elements, and that many samples were written.
C5_CycleCount ==
    CleanRun =>
        LET cycles == Len(received) IN
            /\ cycles = Enqueued
            /\ cycles * len_recv_buffer >= num_samps_min
            /\ (cycles - 1) * len_recv_buffer < num_samps_min
            /\ DOMAIN samples = 0..(cycles * len_recv_buffer - 1)
            /\ SamplesWritten = cycles * len_recv_buffer
            /\ \A b \in 0..(cycles - 1) : write_count[b] = 1

C5_Witness ==
    /\ CleanRun
    /\ num_samps_min % len_recv_buffer # 0
    /\ Len(received) >= 2

\* C6: when the writer takes the Sentinel from the queue it has written every
\* entry put before it, and from then on it writes nothing more to samples:
\* it only flushes and ends.
C6_SentinelLast ==
    /\ [](sentinel_seen =>
            /\ \A b \in 0..(Enqueued - 1) : write_count[b] >= 1
            /\ NormalEntries(rx_index_queue) = {}
            /\ w_pc \in {"stopping", "exited"})
    /\ [][sentinel_seen => (samples' = samples /\ write_count' = write_count)]_vars

C6_Witness ==
    /\ sentinel_seen
    /\ w_pc = "exited"
    /\ Enqueued >= 3
    /\ disk = samples

\* C7: no stop event is cleared before the Sentinel has been put, the writer
\* has ended and the main process has flushed samples.
\* (Stated for the runs whose acquisition loop made at least one cycle.)
C7_ShutdownOrder ==
    (cleared # {} /\ Enqueued >= 1)
        => (SentinelEmitted /\ w_pc = "exited" /\ main_flushes >= 1)

\* C8: clearing sync_running when it is already clear, and flushing a second
\* time, leave samples, the durable copy, the event and every counter as they
\* were; no block of samples is ever written twice.
C8_ShutdownIdempotent ==
    /\ [](\A b \in DOMAIN write_count : write_count[b] <= 1)
    /\ [][(pc = "clear_sync" /\ pc' = "join_sync" /\ ~sync_running) =>
            /\ ~sync_running'
            /\ samples' = samples /\ disk' = disk
            /\ write_count' = write_count /\ i' = i
            /\ rx_queue_writer_max_q' = rx_queue_writer_max_q
            /\ UNCHANGED acctVars]_vars
    /\ [][(pc = "final_flush" /\ pc' = "done") =>
            /\ samples' = samples /\ disk' = disk
            /\ write_count' = write_count /\ i' = i
            /\ rx_queue_writer_max_q' = rx_queue_writer_max_q
            /\ UNCHANGED acctVars]_vars

C8_Witness ==
    /\ pc = "done"
    /\ loop_exit = "interrupt"
    /\ interrupts = {"main"}
    /\ cleared = {"writer", "sync"}
    /\ main_flushes = 2
    /\ \E b \in DOMAIN write_count : write_count[b] = 1

\* C10: when real-time scheduling or CPU pinning is refused, no process of
\* the pipeline dies of it: the script is not aborted and neither worker ends
\* with the PermissionError.
\* (Stated for the runs of a root process that is refused SCHED_RR, is
\* allowed to pin, and receives no KeyboardInterrupt.)
C10_DegradedRunCompletes ==
    (euid_root /\ ~rt_permitted /\ pin_permitted /\ interrupts = {})
        => (pc # "aborted" /\ w_pc # "crashed" /\ s_pc # "crashed")

\* C9: a status `none' while an overflow is in progress adds
\* (time_spec - last_overflow) * rate to num_rx_dropped and clears
\* had_an_overflow; a status `none' otherwise changes nothing; after
\* [none, overflow(t=10), none(t=13)] at 1000 samples/s the estimate is 3000.
C9_NoneStatus ==
    /\ [][(Len(statuses') = Len(statuses) + 1
            /\ statuses'[Len(statuses')].error_code = "none") =>
            IF had_an_overflow
            THEN /\ num_rx_dropped' = num_rx_dropped
                       + (statuses'[Len(statuses')].time_spec - last_overflow) * rate
                 /\ ~had_an_overflow'
            ELSE UNCHANGED acctVars]_vars
    /\ []((/\ Len(statuses) = 3
           /\ rate = 1000
           /\ statuses[1].error_code = "none"
           /\ statuses[2].error_code = "overflow" /\ statuses[2].time_spec = 10
           /\ statuses[3].error_code = "none" /\ statuses[3].time_spec = 13)
          => (num_rx_dropped = 3000 /\ ~had_an_overflow))

C9_Witness ==
    /\ Len(statuses) = 3
    /\ rate = 1000
    /\ statuses[1].error_code = "none"
    /\ statuses[2].error_code = "overflow" /\ statuses[2].time_spec = 10
    /\ statuses[3].error_code = "none" /\ statuses[3].time_spec = 13
    /\ num_rx_dropped = 3000
    /\ ~had_an_overflow

\* the status process_metadata handled last
LastStatus == statuses[Len(statuses)]

\* a step of process_metadata that handles a status of the given class
Handles(code) ==
    /\ Len(statuses') = Len(statuses) + 1
    /\ statuses'[Len(statuses')].error_code = code

\* C11: the producer hands every cycle's status to the accountant, so a
\* counter is at least one as soon as a cycle had a status of its class.
\* (Stated for the status of the latest cycle.)
C11_StatusAccounted ==
    i >= 1 =>
        /\ (metadata.error_code = "timeout" => num_rx_timeouts >= 1)
        /\ (metadata.error_code = "late" => num_rx_late >= 1)
        /\ (metadata.error_code = "overflow" => num_rx_overruns + num_rx_seqerr >= 1)

\* C12: within one overflow episode the stored timestamp is that of the first
\* overflow: [overflow(t=10), overflow(t=12), none(t=13)] gives a dropped
\* estimate of (13 - 10) * rate.
C12_FirstOverflowKept ==
    (/\ Len(statuses) = 3
     /\ statuses[1].error_code = "overflow" /\ statuses[1].time_spec = 10
     /\ statuses[2].error_code = "overflow" /\ statuses[2].time_spec = 12
     /\ statuses[3].error_code = "none" /\ statuses[3].time_spec = 13)
        => num_rx_dropped = (13 - 10) * rate

\* C13: an overflow status adds one to num_rx_seqerr when it carries the
\* out-of-sequence flag and one to num_rx_overruns when it does not; the other
\* of the two and the late, timeout and dropped counters keep their values.
C13_OverflowCountsOnce ==
    [][Handles("overflow") =>
        /\ IF statuses'[Len(statuses')].out_of_sequence
           THEN num_rx_seqerr' = num_rx_seqerr + 1 /\ num_rx_overruns' = num_rx_overruns
           ELSE num_rx_overruns' = num_rx_overruns + 1 /\ num_rx_seqerr' = num_rx_seqerr
        /\ num_rx_late' = num_rx_late
        /\ num_rx_timeouts' = num_rx_timeouts
        /\ num_rx_dropped' = num_rx_dropped]_vars

C13_Witness ==
    /\ Len(statuses) = 3
    /\ statuses[1].error_code = "overflow" /\ ~statuses[1].out_of_sequence
    /\ statuses[2].error_code = "none"
    /\ statuses[3].error_code = "overflow" /\ statuses[3].out_of_sequence
    /\ num_rx_overruns = 1
    /\ num_rx_seqerr = 1
    /\ num_rx_dropped # 0

\* C14: a late status adds one to num_rx_late and process_metadata returns,
\* so that the next status can be handled.
C14_LateContinues ==
    (Len(statuses) >= 1 /\ LastStatus.error_code = "late")
        => (num_rx_late >= 1 /\ acct_pc = "ready")

\* C15 as claimed: a status of no known class adds one to some counter.
C15_GenericCounterIncremented ==
    [][Handles("other") =>
        \/ num_rx_dropped' = num_rx_dropped + 1
        \/ num_rx_overruns' = num_rx_overruns + 1
        \/ num_rx_seqerr' = num_rx_seqerr + 1
        \/ num_rx_timeouts' = num_rx_timeouts + 1
        \/ num_rx_late' = num_rx_late + 1]_vars

\* C15, amended: a status of no known class changes no counter and no
\* overflow-tracking state, and process_metadata returns.
C15_OtherChangesNothing ==
    [][Handles("other") =>
        /\ UNCHANGED <<num_rx_dropped, num_rx_overruns, num_rx_seqerr,
                       num_rx_timeouts, num_rx_late>>
        /\ UNCHANGED <<had_an_overflow, last_overflow>>
        /\ acct_pc' = "ready"]_vars

C15_Witness ==
    /\ Len(statuses) = 2
    /\ statuses[1].error_code = "overflow"
    /\ statuses[2].error_code = "other"
    /\ had_an_overflow
    /\ last_overflow = statuses[1].time_spec
    /\ acct_pc = "ready"

\* C16: a timeout status adds exactly one to num_rx_timeouts and leaves the
\* other counters, had_an_overflow and last_overflow as they were;
\* process_metadata returns without asking for a restart.
C16_TimeoutOnly ==
    [][Handles("timeout") =>
        /\ num_rx_timeouts' = num_rx_timeouts + 1
        /\ UNCHANGED <<num_rx_dropped, num_rx_overruns, num_rx_seqerr, num_rx_late>>
        /\ UNCHANGED <<had_an_overflow, last_overflow>>
        /\ acct_pc' = "ready"]_vars

C16_Witness ==
    /\ Len(statuses) = 2
    /\ statuses[1].error_code = "overflow"
    /\ statuses[2].error_code = "timeout"
    /\ had_an_overflow
    /\ num_rx_timeouts = 1

\* C17: no loss counter ever decreases, whatever the statuses and their
\* timestamps.
C17_CountersMonotone ==
    [][/\ num_rx_dropped' >= num_rx_dropped
       /\ num_rx_overruns' >= num_rx_overruns
       /\ num_rx_seqerr' >= num_rx_seqerr
       /\ num_rx_late' >= num_rx_late
       /\ num_rx_timeouts' >= num_rx_timeouts]_vars

\* C18: the queue never holds two entries that name the same ring slot.
C18_NoSlotQueuedTwice ==
    \A k, l \in NormalEntries(rx_index_queue) :
        rx_index_queue[k][2] = rx_index_queue[l][2] => k = l

\* C19: the k-th put (k = 0, 1, ...) appends exactly (k, k mod rx_queue_size),
\* after slot k mod rx_queue_size of the ring pool has been filled with the
\* buffer received in cycle k; the entries wait in the queue in that order.
C19_EntrySequence ==
    /\ [][Len(received') = Len(received) + 1 =>
            LET k == Len(received) IN
                /\ rx_index_queue' = Append(rx_index_queue, <<k, k % rx_queue_size>>)
                /\ rx_queue'[k % rx_queue_size] = received'[k + 1]
                /\ \A s \in DOMAIN rx_queue :
                      s # k % rx_queue_size => rx_queue'[s] = rx_queue[s]]_vars
    /\ [](\A k \in NormalEntries(rx_index_queue) :
            /\ rx_index_queue[k][2] = rx_index_queue[k][1] % rx_queue_size
            /\ rx_index_queue[k][1] < Len(received)
            /\ (k > 1 => rx_index_queue[k][1] = rx_index_queue[k - 1][1] + 1))

C19_Witness ==
    /\ Len(rx_index_queue) = 3
    /\ rx_index_queue[1] = <<0, 0>>
    /\ rx_index_queue[2] = <<1, 1 % rx_queue_size>>
    /\ rx_index_queue[3] = <<2, 2 % rx_queue_size>>
    /\ rx_queue[2 % rx_queue_size] = DeviceBuffer(2)

\* C20: the writer's copy for entry (i, s) sets block i of samples to the
\* contents of slot s of the ring pool, leaves every other element of samples
\* as it was, and does not change the ring pool.
C20_WriterCopiesSlot ==
    [][(w_pc = "write" /\ w_pc' = "qsize") =>
        LET b == w_entry[1] IN
            /\ Block(samples', b) = rx_queue[w_entry[2]]
            /\ \A k \in DOMAIN samples :
                  (k < b * len_recv_buffer \/ k >= (b + 1) * len_recv_buffer)
                      => samples'[k] = samples[k]
            /\ rx_queue' = rx_queue]_vars

\* the try block of the main process was left with both workers started
LoopEnded == loop_exit # "none" /\ w_pc # "idle" /\ s_pc # "idle"

\* C21: under fair scheduling, once the acquisition loop has ended (target
\* count, KeyboardInterrupt or RuntimeError) the writer process ends, the sync
\* process ends, and the main process gets past both joins; no step of the
\* sync process changes the queue.
C21_WorkersStop ==
    /\ LoopEnded ~> (/\ w_pc \in {"exited", "crashed"}
                     /\ s_pc \in {"exited", "crashed"}
                     /\ pc \in {"final_flush", "done"})
    /\ [][s_pc' # s_pc => rx_index_queue' = rx_index_queue]_vars

\* the writer's flag was cleared and it still ended by taking the Sentinel
C21_Witness ==
    /\ pc = "done"
    /\ loop_exit = "interrupt"
    /\ cleared = {"writer", "sync"}
    /\ sentinel_seen
    /\ w_pc = "exited"
    /\ s_pc = "exited"
    /\ interrupts = {"main"}

\* C22 as claimed: the running maximum never decreases, and after a clean
\* run the peak the writer reports is the largest number of entries the queue
\* held at any instant.
C22_PeakIsTrueMax ==
    /\ [][rx_queue_writer_max_q' >= rx_queue_writer_max_q]_vars
    /\ [](CleanRun => rx_queue_writer_max_q = peak_q)

\* C22, amended: the running maximum never decreases; it changes only when
\* the writer samples the depth after a write, to the larger of itself and the
\* depth sampled; it never exceeds the largest number of entries the queue
\* has held, and it is -1 until the writer has completed a write.
C22_PeakObserved ==
    /\ [][rx_queue_writer_max_q' >= rx_queue_writer_max_q]_vars
    /\ [][IF w_pc = "qsize" /\ w_pc' = "check"
          THEN rx_queue_writer_max_q' =
                   Max(rx_queue_writer_max_q, Len(rx_index_queue))
          ELSE rx_queue_writer_max_q' = rx_queue_writer_max_q]_vars
    /\ [](rx_queue_writer_max_q <= peak_q)
    /\ []((\A b \in DOMAIN write_count : write_count[b] = 0)
              => rx_queue_writer_max_q = -1)

\* a clean run whose reported peak is below the true one
C22_Witness ==
    /\ CleanRun
    /\ w_pc = "exited"
    /\ rx_queue_writer_max_q >= 1
    /\ rx_queue_writer_max_q < peak_q

\* C23: a warning is logged for every excursion of the sampled depth above
\* half of rx_queue_size, and none while the depth is at or below half: when
\* the writer has ended, it has logged a warning if and only if it sampled a
\* depth above half.
C23_WarnedWhenAboveHalf ==
    w_pc = "exited" =>
        (warnings >= 1 <=> 2 * rx_queue_writer_max_q > rx_queue_size)

\* a step of the main process or of the sync process
NonWriterStep == pc' # pc \/ i' # i \/ s_pc' # s_pc

\* C24: once the writer has been started, a step of the main process (a loop
\* iteration, a flush, any other line) or of the sync process leaves samples
\* as it was; samples changes only in the writer's copy step.
C24_OnlyWriterMutates ==
    /\ [][(w_pc # "idle" /\ NonWriterStep) => samples' = samples]_vars
    /\ [][(w_pc # "idle" /\ samples' # samples) =>
            (w_pc = "write" /\ w_pc' = "qsize")]_vars

\* the producer has cycled, the writer has copied, the sync process has
\* synced and the main process has flushed
C24_Witness ==
    /\ pc = "clear_sync"
    /\ main_flushes = 1
    /\ i >= 3
    /\ \A b \in DOMAIN write_count : write_count[b] = 1
    /\ s_pc = "loop"
    /\ disk = samples
    /\ interrupts = {}

\* the main process has run line 443, whatever became of it afterwards
SentinelPut == SentinelEmitted \/ (pc = "aborted" /\ loop_exit # "none")

\* Sentinels in the queue, plus the one the writer has taken
SentinelCount ==
    Cardinality({k \in 1..Len(rx_index_queue) : rx_index_queue[k] = Sentinel})
        + (IF sentinel_seen THEN 1 ELSE 0)

\* C25: however the acquisition loop ends (target count, KeyboardInterrupt,
\* RuntimeError), the main process then puts the Sentinel, exactly once; the
\* Sentinel is the newest entry of the queue for as long as it is in it, and
\* nothing is put after it.
C25_SentinelOnceAndLast ==
    /\ loop_exit # "none" ~> SentinelPut
    /\ [](SentinelCount = IF SentinelPut THEN 1 ELSE 0)
    /\ []((SentinelPut /\ ~sentinel_seen) =>
              /\ rx_index_queue # <<>>
              /\ rx_index_queue[Len(rx_index_queue)] = Sentinel)
    /\ [][SentinelPut => Len(rx_index_queue') <= Len(rx_index_queue)]_vars
    /\ [][(pc = "put_sentinel" /\ pc' # pc) =>
            /\ rx_index_queue' = Append(rx_index_queue, Sentinel)
            /\ i' = i]_vars

\* the loop was ended by a RuntimeError with entries still queued, and the
\* Sentinel waits behind them
C25_Witness ==
    /\ loop_exit = "runtime_error"
    /\ pc = "join_writer"
    /\ Len(rx_index_queue) = 3
    /\ rx_index_queue[1] = <<0, 0>>
    /\ rx_index_queue[3] = Sentinel

====
